---- MODULE Spec2Model ----
(***************************************************************************)
(* ccost: a Raycast command that shells out to `ccusage`, parses its JSON  *)
(* report and shows the recent periods.  The repository holds two versions *)
(* of the command (src/index.tsx): the weekly one (src/src/ccost.tsx, 12   *)
(* weeks, with a per-family summary) and the daily one                     *)
(* (src/unnamed/part_001, 7 days, with a stored total).  `variant` says    *)
(* which of the two is running.                                            *)
(*                                                                         *)
(* Text is modelled as sequences: a model name is a sequence of            *)
(* characters, a message a sequence of pieces, the standard output a       *)
(* sequence of chunks (white space or a JSON document).  A JavaScript      *)
(* value is a tagged record: [t |-> "num", v |-> n], [t |-> "undef"],      *)
(* [t |-> "nan"].  Time is counted in ticks, TicksPerDay to a day.         *)
(***************************************************************************)
EXTENDS Integers, Sequences, FiniteSets

VARIABLES
    variant,     \* "weekly" (src/src/ccost.tsx) or "daily" (src/unnamed/part_001)
    days,        \* useState<Day[]>: the displayed periods
    totalCost,   \* useState(0): the stored 7-day total (daily version only)
    isLoading,   \* useState(true): the loading flag
    toast,       \* the message of the last showToast call
    toastCount,  \* the number of showToast calls so far
    pc,          \* the position of each invocation of fetch
    order,       \* the invocations of fetch that returned, in the order they did
    lastRun,     \* what the last invocation to return got from exec, and when
    lastOk       \* the same for the last invocation that reached setDays

vars == <<variant, days, totalCost, isLoading, toast, toastCount, pc, order, lastRun, lastOk>>

----------------------------------------------------------------------------
(* Bounds *)

MaxRefresh == 3      \* invocations of fetch: the one of useEffect and the user's
TicksPerDay == 2     \* instants told apart within a day
NowSteps == 1        \* the clock reads Today's first tick .. that plus NowSteps
Today == 100         \* the day on which the command runs
MaxRun == 10         \* longest run of consecutive periods in a report
MaxNum == 1          \* largest cost / token count of a model breakdown

(* Constants of the program *)

DailyWindowDays == 6
DailyCap == 7
WeeksBack == 12
DaysPerWeek == 7

----------------------------------------------------------------------------
(* JavaScript values *)

Undef == [t |-> "undef"]
NaN == [t |-> "nan"]
None == [t |-> "none"]
Num(n) == [t |-> "num", v |-> n]

\* a ?? 0
OrZero(a) == IF a.t = "undef" THEN Num(0) ELSE a

\* a + b on numbers; undefined or NaN on either side gives NaN
Plus(a, b) == IF a.t = "num" /\ b.t = "num" THEN Num(a.v + b.v) ELSE NaN

\* a >= b on numbers; false as soon as one side is NaN
GreaterEq(a, b) == a.t = "num" /\ b.t = "num" /\ a.v >= b.v

----------------------------------------------------------------------------
(* Strings *)

Opus == <<"o", "p", "u", "s">>
Sonnet == <<"s", "o", "n", "n", "e", "t">>
Haiku == <<"h", "a", "i", "k", "u">>
Stamp == <<"-", "2", "0", "2", "4", "1", "0", "2", "2">>
Digits == {"0", "1", "2", "3", "4", "5", "6", "7", "8", "9"}

\* String.prototype.includes
includes(s, kw) ==
    \E i \in 1..(Len(s) - Len(kw) + 1) : SubSeq(s, i, i + Len(kw) - 1) = kw

\* name.replace(/-\d{8}.*$/, ""): cut at the first "-" followed by 8 digits
StampAt(s, i) ==
    /\ i + 8 <= Len(s)
    /\ s[i] = "-"
    /\ \A k \in 1..8 : s[i + k] \in Digits

stripStamp(s) ==
    IF \E i \in 1..Len(s) : StampAt(s, i)
    THEN LET i == CHOOSE j \in 1..Len(s) :
                      StampAt(s, j) /\ \A k \in 1..(j - 1) : ~StampAt(s, k)
         IN SubSeq(s, 1, i - 1)
    ELSE s

----------------------------------------------------------------------------
(* Dates.  A period identifier is a date string: "YYYY-MM-DD" (form        *)
(* "date"), "YYYY-MM-DDTHH:MMZ" (form "datetime") or text that is no date  *)
(* (form "text").                                                          *)

DateOnly(d) == [form |-> "date", day |-> d, tick |-> 0]
DateTime(d, k) == [form |-> "datetime", day |-> d, tick |-> k]
NoDate == [form |-> "text", day |-> 0, tick |-> 0]

\* new Date(s) as a timestamp: NaN for an Invalid Date
Timestamp(s) ==
    IF s.form = "text" THEN NaN ELSE Num(s.day * TicksPerDay + s.tick)

\* s.split("T")[0]
splitT(s) == IF s.form = "datetime" THEN DateOnly(s.day) ELSE s

\* d.setDate(d.getDate() - n): the same time of day, n days earlier
setDateBack(now, n) == now - n * TicksPerDay

----------------------------------------------------------------------------
(* Array.prototype.filter, map, sort (stable), slice(0, n) *)

\* the period identifier of an upstream record: d.week or d.date
periodOf(d) == IF "week" \in DOMAIN d THEN d.week ELSE d.date

RECURSIVE insertNewestFirst(_, _)
\* x stood before every element of s: it stays before those it does not sort after
insertNewestFirst(x, s) ==
    IF s = <<>> THEN <<x>>
    ELSE IF Timestamp(periodOf(x)).v >= Timestamp(periodOf(Head(s))).v
         THEN <<x>> \o s
         ELSE <<Head(s)>> \o insertNewestFirst(x, Tail(s))

RECURSIVE sortNewestFirst(_)
\* .sort((a, b) => new Date(b) - new Date(a)) on valid dates; the sort is stable
sortNewestFirst(s) ==
    IF s = <<>> THEN <<>>
    ELSE insertNewestFirst(Head(s), sortNewestFirst(Tail(s)))

slice0(s, n) == SubSeq(s, 1, IF Len(s) < n THEN Len(s) ELSE n)

map(s, F(_)) == [i \in 1..Len(s) |-> F(s[i])]

filter(s, Test(_)) == SelectSeq(s, Test)

----------------------------------------------------------------------------
(* The Fetcher: run(cmd).  What exec hands back is an exit code, the       *)
(* standard output (chunks: white space, or a document) and the error      *)
(* stream (a string).                                                      *)

Space == [ws |-> TRUE]
Doc(d) == [ws |-> FALSE, doc |-> d]

Command == [weekly |-> "npx ccusage@latest weekly --json",
            daily |-> "npx ccusage@latest daily --json"]

RECURSIVE trimStart(_)
trimStart(s) == IF Len(s) > 0 /\ Head(s).ws THEN trimStart(Tail(s)) ELSE s

RECURSIVE trimEnd(_)
trimEnd(s) ==
    IF Len(s) > 0 /\ s[Len(s)].ws THEN trimEnd(SubSeq(s, 1, Len(s) - 1)) ELSE s

\* String.prototype.trim
trim(s) == trimEnd(trimStart(s))

Return(x) == [ok |-> TRUE, value |-> x]
Throw(m) == [ok |-> FALSE, message |-> m]

\* process.env.SHELL?.includes("zsh") ? "zsh" : "bash"
shell(env) == IF env.t = "str" /\ includes(env.s, <<"z", "s", "h">>) THEN "zsh" ELSE "bash"

\* `${shell} -l -c "${cmd.replace(/"/g, '\\"')}"`; the two commands hold no quote
commandLine(env, cmd) == <<shell(env), " -l -c \"", cmd, "\"">>

\* promisify(exec): rejects when the command exits with a code other than 0,
\* with the message "Command failed: <command line>\n<stderr>"
execAsync(line, res) ==
    IF res.code # 0
    THEN Throw(<<"Command failed: ">> \o line \o <<"\n", res.stderr>>)
    ELSE Return([stdout |-> res.stdout, stderr |-> res.stderr])

\* run with || where the source has &&
runEither(cmd, res) ==
    LET e == execAsync(commandLine(res.SHELL, cmd), res) IN
    IF ~e.ok THEN e
    ELSE IF e.value.stderr # "" \/ trim(e.value.stdout) = <<>>
         THEN Throw(<<e.value.stderr>>)
         ELSE Return(trim(e.value.stdout))

run(cmd, res) ==
    LET e == execAsync(commandLine(res.SHELL, cmd), res) IN
    IF ~e.ok THEN e
    ELSE IF e.value.stderr # "" /\ trim(e.value.stdout) = <<>>
         THEN Throw(<<e.value.stderr>>)
         ELSE Return(trim(e.value.stdout))

\* JSON.parse: the text is one document, or it is no JSON
JSONparse(raw) ==
    IF Len(raw) = 1 /\ ~raw[1].ws /\ raw[1].doc.t # "junk"
    THEN Return(raw[1].doc)
    ELSE Throw(<<"SyntaxError">>)

\* data.weekly?.length, data.daily?.length: reading a property of null throws
arrayOf(data, key) ==
    IF data.t = "null" THEN Throw(<<"TypeError: Cannot read properties of null">>)
    ELSE IF data.key # key \/ Len(data.items) = 0 THEN Throw(<<"No usage data">>)
    ELSE Return(data.items)

----------------------------------------------------------------------------
(* The Aggregator, weekly version (src/src/ccost.tsx) *)

colorMap == [sonnet |-> "Blue", haiku |-> "Purple", opus |-> "Green"]

\* colorMap[key] ?? Color.SecondaryText
colorOf(cm, k) == IF k \in DOMAIN cm THEN cm[k] ELSE "SecondaryText"

key(modelName) ==
    IF includes(modelName, Sonnet) THEN "sonnet"
    ELSE IF includes(modelName, Haiku) THEN "haiku"
    ELSE IF includes(modelName, Opus) THEN "opus"
    ELSE "gray"

twelveWeeksAgo(now) == setDateBack(now, WeeksBack * DaysPerWeek)

\* recent with > where the source has >=
recentAfter(weekly, now) ==
    sortNewestFirst(
        filter(weekly, LAMBDA d : GreaterEq(Timestamp(d.week), Num(twelveWeeksAgo(now) + 1))))

recent(weekly, now) ==
    sortNewestFirst(
        filter(weekly, LAMBDA d : GreaterEq(Timestamp(d.week), Num(twelveWeeksAgo(now)))))

breakdownsOf(d) == IF d.modelBreakdowns.t = "undef" THEN <<>> ELSE d.modelBreakdowns.items

model(m) ==
    LET inputTokens == OrZero(m.inputTokens)
        outputTokens == OrZero(m.outputTokens)
        cacheCreationTokens == OrZero(m.cacheCreationTokens)
        cacheReadTokens == OrZero(m.cacheReadTokens)
        totalTokens ==
            Plus(Plus(Plus(inputTokens, outputTokens), cacheCreationTokens), cacheReadTokens)
    IN [name |-> m.modelName.s,
        cost |-> m.cost,
        color |-> colorOf(colorMap, key(m.modelName.s)),
        inputTokens |-> inputTokens,
        outputTokens |-> outputTokens,
        totalTokens |-> totalTokens]

day(d) ==
    [date |-> d.week,
     totalCost |-> d.totalCost,
     inputTokens |-> d.inputTokens,
     outputTokens |-> d.outputTokens,
     totalTokens |-> d.totalTokens,
     models |-> map(breakdownsOf(d), model)]

\* m.modelName.includes on a breakdown without modelName throws a TypeError
throwsOnName(rs) ==
    \E i \in 1..Len(rs) : \E j \in 1..Len(breakdownsOf(rs[i])) :
        breakdownsOf(rs[i])[j].modelName.t = "undef"

normalized(rs) ==
    IF throwsOnName(rs)
    THEN Throw(<<"TypeError: Cannot read properties of undefined">>)
    ELSE Return(map(rs, day))

\* the try block of fetch, from the result of exec to the argument of setDays
tryWeekly(res, now) ==
    LET raw == run(Command.weekly, res) IN
    IF ~raw.ok THEN raw
    ELSE LET data == JSONparse(raw.value) IN
         IF ~data.ok THEN data
         ELSE LET weekly == arrayOf(data.value, "weekly") IN
              IF ~weekly.ok THEN weekly
              ELSE normalized(recent(weekly.value, now))

----------------------------------------------------------------------------
(* The Aggregator, daily version (src/unnamed/part_001) *)

colorMapDaily == [sonnet |-> "Green", haiku |-> "Blue", opus |-> "Purple"]

weekAgo(now) == setDateBack(now, DailyWindowDays)

recentDaily(daily, now) ==
    slice0(
        sortNewestFirst(
            filter(daily, LAMBDA d : GreaterEq(Timestamp(d.date), Num(weekAgo(now))))),
        DailyCap)

modelDaily(m) ==
    [name |-> stripStamp(m.modelName.s),
     cost |-> m.cost,
     color |-> colorOf(colorMapDaily, key(m.modelName.s))]

dayDaily(d) ==
    [date |-> splitT(d.date),
     totalCost |-> d.totalCost,
     models |-> map(breakdownsOf(d), modelDaily)]

normalizedDaily(rs) ==
    IF throwsOnName(rs)
    THEN Throw(<<"TypeError: Cannot read properties of undefined">>)
    ELSE Return(map(rs, dayDaily))

RECURSIVE weekTotal(_)
\* normalized.reduce((s, d) => s + d.totalCost, 0)
weekTotal(ds) ==
    IF Len(ds) = 0 THEN Num(0)
    ELSE Plus(weekTotal(SubSeq(ds, 1, Len(ds) - 1)), ds[Len(ds)].totalCost)

tryDaily(res, now) ==
    LET raw == run(Command.daily, res) IN
    IF ~raw.ok THEN raw
    ELSE LET data == JSONparse(raw.value) IN
         IF ~data.ok THEN data
         ELSE LET daily == arrayOf(data.value, "daily") IN
              IF ~daily.ok THEN daily
              ELSE normalizedDaily(recentDaily(daily.value, now))

----------------------------------------------------------------------------
(* The summary roll-up of the weekly version: useMemo over days *)

summaryRow(n, c) ==
    [name |-> n, cost |-> 0, inputTokens |-> 0, outputTokens |-> 0, totalTokens |-> 0,
     color |-> c]

summaryInit ==
    [opus |-> summaryRow("Opus (Total)", "Green"),
     sonnet |-> summaryRow("Sonnet", "Blue"),
     haiku |-> summaryRow("Haiku", "Purple"),
     other |-> summaryRow("Other", "SecondaryText")]

\* Object.values(summary) lists the rows in the order the keys were written
summaryKeys == <<"opus", "sonnet", "haiku", "other">>

summaryKey(name) ==
    IF includes(name, Opus) THEN "opus"
    ELSE IF includes(name, Sonnet) THEN "sonnet"
    ELSE IF includes(name, Haiku) THEN "haiku"
    ELSE "other"

\* the inner loop with = where the source has +=
addModelOverwriting(summary, m) ==
    LET k == summaryKey(m.name) IN
    [summary EXCEPT
        ![k].cost = OrZero(m.cost).v,
        ![k].inputTokens = OrZero(m.inputTokens).v,
        ![k].outputTokens = OrZero(m.outputTokens).v,
        ![k].totalTokens = OrZero(m.totalTokens).v]

\* the body of the inner loop: summary[key].x += model.x ?? 0
addModel(summary, m) ==
    LET k == summaryKey(m.name) IN
    [summary EXCEPT
        ![k].cost = @ + OrZero(m.cost).v,
        ![k].inputTokens = @ + OrZero(m.inputTokens).v,
        ![k].outputTokens = @ + OrZero(m.outputTokens).v,
        ![k].totalTokens = @ + OrZero(m.totalTokens).v]

RECURSIVE addModels(_, _)
addModels(summary, models) ==
    IF Len(models) = 0 THEN summary
    ELSE addModels(addModel(summary, Head(models)), Tail(models))

RECURSIVE addDays(_, _)
addDays(summary, ds) ==
    IF Len(ds) = 0 THEN summary
    ELSE addDays(addModels(summary, Head(ds).models), Tail(ds))

\* the filter on the cost instead of the tokens
shownByCost(m) == m.cost > 0

shown(m) == m.totalTokens > 0

modelSummary(ds) ==
    LET summary == addDays(summaryInit, ds) IN
    filter(map(summaryKeys, LAMBDA k : summary[k]), shown)

----------------------------------------------------------------------------
(* What ccusage may report *)

Str(s) == [t |-> "str", s |-> s]

ModelNames ==
    { <<"c", "-">> \o Sonnet \o Stamp,      \* "c-sonnet-20241022"
      <<"c", "-">> \o Opus,                 \* "c-opus"
      Haiku,                                \* "haiku"
      <<"g", "p", "t">>,                    \* "gpt"
      Opus \o <<"-">> \o Sonnet,            \* "opus-sonnet"
      Haiku \o <<"-">> \o Opus,             \* "haiku-opus"
      <<"O", "p", "u", "s">> }              \* "Opus"

OptNums == {Undef} \cup {Num(n) : n \in 0..MaxNum}

Breakdown(n, c, i, o, cc, cr) ==
    [modelName |-> n, cost |-> c, inputTokens |-> i, outputTokens |-> o,
     cacheCreationTokens |-> cc, cacheReadTokens |-> cr]

\* every breakdown over the names and the optional numbers
Breakdowns ==
    { Breakdown(Str(n), c, i, o, cc, cr) :
        n \in ModelNames, c \in OptNums, i \in OptNums, o \in {Undef, Num(MaxNum)},
        cc \in {Undef, Num(MaxNum)}, cr \in {Undef, Num(MaxNum)} }

\* a smaller palette, for reports with several breakdowns
SomeBreakdowns ==
    { Breakdown(Str(n), c, i, Undef, Undef, Undef) :
        n \in ModelNames, c \in {Undef, Num(MaxNum)}, i \in {Num(0), Num(MaxNum)} }

Nameless == Breakdown(Undef, Num(1), Num(1), Num(1), Undef, Undef)

Plain == Breakdown(Str(<<"c", "-">> \o Sonnet \o Stamp), Num(1), Num(1), Num(1), Num(0), Num(0))

Arr(items) == [t |-> "arr", items |-> items]

WeeklyUsage(w, c, tok, bs) ==
    [week |-> w, totalCost |-> c, inputTokens |-> tok, outputTokens |-> tok,
     totalTokens |-> tok, modelBreakdowns |-> bs]

DailyUsage(d, c, bs) == [date |-> d, totalCost |-> c, modelBreakdowns |-> bs]

Usage(k, d, c, bs) ==
    IF k = "weekly" THEN WeeklyUsage(d, c, c, bs) ELSE DailyUsage(d, c, bs)

Step(k) == IF k = "weekly" THEN DaysPerWeek ELSE 1

\* n consecutive periods, the last one on day `last`, oldest first
Run(k, n, last) ==
    [i \in 1..n |-> Usage(k, DateOnly(last - (n - i) * Step(k)), Num(i), Arr(<<Plain>>))]

Reverse(s) == [i \in 1..Len(s) |-> s[Len(s) + 1 - i]]

\* the days on which a run may end: around Today, and around the cutoff
LastDays(k) ==
    IF k = "weekly"
    THEN {Today - w * DaysPerWeek : w \in {0, 4, WeeksBack, WeeksBack + 1}}
    ELSE (Today - 1)..(Today + 3)

Runs(k) ==
    UNION { {Run(k, n, last), Reverse(Run(k, n, last))} : n \in 1..MaxRun, last \in LastDays(k) }

\* the window of version k, in days
Window(k) == IF k = "weekly" THEN WeeksBack * DaysPerWeek ELSE DailyWindowDays

\* period identifiers on, just before and just after the cutoff, and one that is no date
EdgeDates(k) ==
    { DateOnly(Today), DateOnly(Today - Window(k)), DateOnly(Today - Window(k) - 1),
      DateTime(Today - Window(k), 1), DateTime(Today, 1), NoDate }

Edges(k) ==
    LET one == { Usage(k, d, c, Arr(<<Plain>>)) : d \in EdgeDates(k), c \in {Undef, Num(1)} }
    IN { <<a>> : a \in one } \cup { <<a, b>> : a \in one, b \in one }

\* one period with one breakdown; one period with two; two periods with one each
Mixes(k) ==
    { <<Usage(k, DateOnly(Today), c, Arr(<<b>>))>> : c \in {Undef, Num(MaxNum)}, b \in Breakdowns }
    \cup { <<Usage(k, DateOnly(Today), Num(1), Arr(<<a, b>>))>> :
             a \in SomeBreakdowns, b \in SomeBreakdowns }
    \cup { <<Usage(k, DateOnly(Today - 1), Num(1), Arr(<<a>>)),
             Usage(k, DateOnly(Today), Undef, Arr(<<b>>))>> :
             a \in SomeBreakdowns, b \in SomeBreakdowns }

\* periods without breakdowns, and breakdowns without a name on either side of the cutoff
Odd(k) ==
    { <<Usage(k, DateOnly(Today), Num(1), Undef)>>,
      <<Usage(k, DateOnly(Today), Num(1), Arr(<<>>))>>,
      <<Usage(k, DateOnly(Today), Num(1), Arr(<<Plain, Nameless>>))>>,
      <<Usage(k, DateOnly(Today), Num(1), Arr(<<Plain>>)),
        Usage(k, DateOnly(Today - Window(k) - 1), Num(1), Arr(<<Nameless>>))>> }

Object(k, items) == [t |-> "object", key |-> k, items |-> items]
Null == [t |-> "null"]
Junk == [t |-> "junk"]

Zsh == Str(<<"/", "b", "i", "n", "/", "z", "s", "h">>)
Bash == Str(<<"/", "b", "i", "n", "/", "b", "a", "s", "h">>)

Exec(env, c, out, err) == [SHELL |-> env, code |-> c, stdout |-> out, stderr |-> err]

Clean(d) == Exec(Zsh, 0, <<Doc(d)>>, "")

Sample(k) == Object(k, Run(k, 2, Today))

\* the exit codes, outputs and error streams of the command
Outputs ==
    { <<>>, <<Space>>, <<Doc(Junk)>>, <<Doc(Null)>>, <<Doc(Object("none", <<>>))>>,
      <<Doc(Object("daily", <<>>))>>, <<Doc(Object("weekly", <<>>))>>,
      <<Doc(Sample("daily"))>>, <<Doc(Sample("weekly"))>>,
      <<Space, Doc(Sample("daily")), Space>>, <<Space, Doc(Sample("weekly")), Space>>,
      <<Doc(Sample("daily")), Space, Doc(Sample("daily"))>> }

Execs ==
    { Exec(env, c, out, err) :
        env \in {Zsh, Bash, Undef}, c \in {0, 1}, out \in Outputs, err \in {"", " ", "npm warn"} }

Granularities == {"weekly", "daily"}

\* everything a single refresh is tried on
Reports ==
    Execs \cup
    UNION { { Clean(Object(k, items)) : items \in Runs(k) \cup Edges(k) \cup Mixes(k) \cup Odd(k) } :
            k \in Granularities }

\* the few the overlapping refreshes are tried on
FewReports ==
    { Clean(Sample("weekly")), Clean(Object("weekly", Run("weekly", 1, Today))),
      Clean(Sample("daily")), Clean(Object("daily", Run("daily", 1, Today))),
      Clean(Object("daily", <<DailyUsage(DateOnly(Today), Undef, Undef)>>)),
      Clean(Object("weekly", <<WeeklyUsage(DateOnly(Today), Num(1), Num(1), Arr(<<Plain, Nameless>>))>>)),
      Clean(Object("daily", <<DailyUsage(DateOnly(Today), Num(1), Arr(<<Plain, Nameless>>))>>)),
      Clean(Junk),
      Exec(Zsh, 0, <<>>, "npm warn"),
      Exec(Bash, 1, <<>>, "npm warn") }

Nows == (Today * TicksPerDay)..(Today * TicksPerDay + NowSteps)

\* the first and the last of them, for the overlapping refreshes
FewNows == {Today * TicksPerDay, Today * TicksPerDay + NowSteps}

----------------------------------------------------------------------------
(* The command *)

Fetches == 1..MaxRefresh

Init ==
    /\ variant \in Granularities
    /\ days = <<>>
    /\ totalCost = Num(0)
    /\ isLoading = TRUE
    /\ toast = <<>>
    /\ toastCount = 0
    /\ pc = [r \in Fetches |-> "idle"]
    /\ order = <<>>
    /\ lastRun = None
    /\ lastOk = None

\* fetch up to its await: setIsLoading(true), then exec is under way
fetch(r) ==
    /\ pc[r] = "idle"
    /\ \A q \in 1..(r - 1) : pc[q] # "idle"
    /\ isLoading' = TRUE
    /\ pc' = [pc EXCEPT ![r] = "awaiting"]
    /\ UNCHANGED <<variant, days, totalCost, toast, toastCount, order, lastRun, lastOk>>

\* useEffect(() => { fetch(); }, []): once, after the first render
useEffect == fetch(1)

\* the Refresh action: it sits on the list items, so there is one only with days to show
Refresh ==
    /\ Len(days) > 0
    /\ \E r \in Fetches \ {1} : fetch(r)

try(res, now) == IF variant = "weekly" THEN tryWeekly(res, now) ELSE tryDaily(res, now)

\* setDays as a merge into the list on display instead of a replacement
setDaysAppending(value) ==
    /\ days' = days \o value
    /\ totalCost' = IF variant = "daily" THEN weekTotal(value) ELSE totalCost
    /\ UNCHANGED <<toast, toastCount>>

\* the end of the try block: setDays(normalized) and, daily, setTotalCost(weekTotal)
setDays(value) ==
    /\ days' = value
    /\ totalCost' = IF variant = "daily" THEN weekTotal(value) ELSE totalCost
    /\ UNCHANGED <<toast, toastCount>>

\* a catch block that also clears the list
catchClearing(message) ==
    /\ toast' = message
    /\ toastCount' = toastCount + 1
    /\ days' = <<>>
    /\ UNCHANGED totalCost

\* the catch block: showToast({ style: Failure, title: "Error", message })
catch(message) ==
    /\ toast' = message
    /\ toastCount' = toastCount + 1
    /\ UNCHANGED <<days, totalCost>>

\* the finally block
finally == isLoading' = FALSE

\* fetch from its await on: exec has handed back res and the clock reads now
fetchReturn(r, res, now) ==
    /\ pc[r] = "awaiting"
    /\ LET out == try(res, now) IN
        /\ IF out.ok THEN setDays(out.value) ELSE catch(out.message)
        /\ pc' = [pc EXCEPT ![r] = IF out.ok THEN "done" ELSE "failed"]
        /\ lastOk' = IF out.ok THEN [id |-> r, res |-> res, now |-> now] ELSE lastOk
    /\ finally
    /\ order' = Append(order, r)
    /\ lastRun' = [id |-> r, res |-> res, now |-> now]
    /\ UNCHANGED variant

Resume ==
    \E r \in Fetches :
        /\ pc[r] = "awaiting"
        /\ \E res \in FewReports, now \in FewNows : fetchReturn(r, res, now)

Next == useEffect \/ Refresh \/ Resume

Spec == Init /\ [][Next]_vars

\* one refresh, on every report
ResumeOnce ==
    /\ pc[1] = "awaiting"
    /\ \E res \in Reports, now \in Nows : fetchReturn(1, res, now)

NextOnce == useEffect \/ ResumeOnce

SpecOnce == Init /\ [][NextOnce]_vars

----------------------------------------------------------------------------
(* Claims on overlapping refreshes (Spec) *)

\* what a refresh that got g.res at time g.now hands to setDays
Display(g) == IF g = None THEN <<>> ELSE try(g.res, g.now).value

\* C1: a refresh that fails leaves the displayed periods (and the stored total)
\* as they were and shows exactly one error message; what is displayed after it
\* is the result of the last refresh that succeeded, the empty list if none did.
\* A refresh has failed when it returns through the catch block.
C1_FailedRefreshKeepsDisplay ==
    [][\A r \in Fetches :
          (pc[r] = "awaiting" /\ pc'[r] = "failed") =>
              /\ days' = days
              /\ totalCost' = totalCost
              /\ toastCount' = toastCount + 1
              /\ toast' # <<>>
              /\ days' = Display(lastOk')]_vars

\* a refresh failed while an earlier one's periods were on display
C1_Witness ==
    /\ Len(order) >= 2
    /\ pc[order[Len(order)]] = "failed"
    /\ lastOk # None
    /\ Len(days) > 0
    /\ toastCount = 1

\* C9: the loading flag is true whenever a refresh is in flight.
C9_LoadingWhileInFlight == (\E r \in Fetches : pc[r] = "awaiting") => isLoading

\* C10: the periods on display are the whole output of the successful refresh
\* that returned last, whatever the order in which the refreshes started, and
\* the stored 7-day total is the sum of the total costs on display (the sum as
\* JavaScript adds them: NaN as soon as one of them is missing).
C10_LastCompletionWins ==
    /\ days = Display(lastOk)
    /\ variant = "daily" => totalCost = weekTotal(days)

\* refresh 3 returned before refresh 2, both succeeded, and refresh 2's output
\* is on display
C10_Witness ==
    /\ order = <<1, 3, 2>>
    /\ pc[2] = "done"
    /\ pc[3] = "done"
    /\ lastOk.id = 2
    /\ lastOk.res # Clean(Sample(variant))
    /\ days = Display(lastOk)
    /\ Len(days) = 1

----------------------------------------------------------------------------
(* Claims on a single refresh (SpecOnce) *)

\* the array of period records in the report g.res
ItemsOf(g) == SelectSeq(g.res.stdout, LAMBDA c : ~c.ws)[1].doc.items

Blank(out) == \A i \in 1..Len(out) : out[i].ws

\* v is out without its leading and trailing white space
IsTrimOf(v, out) ==
    /\ Len(v) > 0 => ~v[1].ws /\ ~v[Len(v)].ws
    /\ \E i \in 1..(Len(out) + 1), j \in 0..Len(out) :
          /\ v = SubSeq(out, i, j)
          /\ \A k \in 1..(i - 1) : out[k].ws
          /\ \A k \in (j + 1)..Len(out) : out[k].ws

\* C6, as the claim states it: the Fetcher fails exactly when the command wrote
\* to its error stream and its standard output is blank, then with the error
\* stream's text as the message; otherwise it returns the trimmed output.
C6_FailsIffStderrOnly ==
    lastRun # None =>
        LET res == lastRun.res
            out == run(Command[variant], res)
        IN /\ ~out.ok <=> (res.stderr # "" /\ Blank(res.stdout))
           /\ ~out.ok => out.message = <<res.stderr>>
           /\ out.ok => IsTrimOf(out.value, res.stdout)

\* C6, amended: when the command exits with code 0 the Fetcher fails exactly
\* when the error stream is not empty and the standard output is blank, with the
\* error stream's text as the message, and otherwise returns the trimmed output;
\* when the command exits with another code the Fetcher fails whatever was
\* written, with exec's message "Command failed: <command line>\n<stderr>".
\* A failure of the Fetcher is the message shown.
C6_FetcherOutcome ==
    lastRun # None =>
        LET res == lastRun.res
            out == run(Command[variant], res)
            sh == IF res.SHELL \in {Bash, Undef} THEN "bash" ELSE "zsh"
        IN /\ res.code = 0 =>
                /\ ~out.ok <=> (res.stderr # "" /\ Blank(res.stdout))
                /\ ~out.ok => out.message = <<res.stderr>>
                /\ out.ok => IsTrimOf(out.value, res.stdout)
           /\ res.code # 0 =>
                /\ ~out.ok
                /\ out.message =
                       <<"Command failed: ", sh, " -l -c \"", Command[variant], "\"", "\n",
                         res.stderr>>
           /\ ~out.ok => toast = out.message /\ pc[1] = "failed" /\ days = <<>>

\* the command exited with code 0, wrote only white space to its output and a
\* warning to its error stream, and the warning is the message shown
C6_Witness ==
    /\ lastRun # None
    /\ lastRun.res.code = 0
    /\ lastRun.res.stdout = <<Space>>
    /\ lastRun.res.stderr = "npm warn"
    /\ toast = <<"npm warn">>
    /\ toastCount = 1

\* the models on display, period after period
RECURSIVE ModelsOf(_)
ModelsOf(ds) == IF Len(ds) = 0 THEN <<>> ELSE Head(ds).models \o ModelsOf(Tail(ds))

FamilyOfKey(k) == IF k = "gray" THEN "other" ELSE k

\* C2: the roll-up puts every model breakdown in the family that normalization
\* gave it when it chose its color (sonnet, then haiku, then opus, else other),
\* also when the name holds several family keywords.
C2_SameFamilyRule ==
    variant = "weekly" =>
        \A i \in 1..Len(ModelsOf(days)) :
            LET m == ModelsOf(days)[i] IN
            /\ summaryKey(m.name) = FamilyOfKey(key(m.name))
            /\ summaryInit[summaryKey(m.name)].color = m.color

Families == {"opus", "sonnet", "haiku", "other"}

RECURSIVE SumOf(_, _)
\* the sum of a field over a sequence of models, a missing field counting as 0
SumOf(ms, f) ==
    IF Len(ms) = 0 THEN 0
    ELSE (IF Head(ms)[f].t = "num" THEN Head(ms)[f].v ELSE 0) + SumOf(Tail(ms), f)

InFamily(ms, fam) == SelectSeq(ms, LAMBDA m : summaryKey(m.name) = fam)

Fields == {"cost", "inputTokens", "outputTokens", "totalTokens"}

RowName == [opus |-> "Opus (Total)", sonnet |-> "Sonnet", haiku |-> "Haiku", other |-> "Other"]

\* C4: every figure of every summary row is the sum of that field over the
\* model breakdowns of all displayed periods that fall in the row's family, a
\* missing field counting as zero; the rows together with the families left out
\* account for every breakdown once.
C4_SummarySums ==
    variant = "weekly" =>
        LET ms == ModelsOf(days)
            rows == modelSummary(days)
        IN /\ \A i \in 1..Len(rows) : \A fam \in Families :
                  rows[i].name = RowName[fam] =>
                      \A f \in Fields : rows[i][f] = SumOf(InFamily(ms, fam), f)
           /\ \A fam \in Families :
                  (\A i \in 1..Len(rows) : rows[i].name # RowName[fam]) =>
                      SumOf(InFamily(ms, fam), "totalTokens") = 0

\* two periods with a model of the same family each, one of them without a cost,
\* and the family's row adds them up
C4_Witness ==
    /\ variant = "weekly"
    /\ Len(days) = 2
    /\ Len(days[1].models) = 1
    /\ Len(days[2].models) = 1
    /\ summaryKey(days[1].models[1].name) = summaryKey(days[2].models[1].name)
    /\ days[1].models[1].cost = Undef
    /\ days[2].models[1].cost = Num(1)
    /\ days[1].models[1].totalTokens = Num(1)
    /\ days[2].models[1].totalTokens = Num(1)
    /\ Len(modelSummary(days)) = 1
    /\ modelSummary(days)[1].totalTokens = 2
    /\ modelSummary(days)[1].cost = 1

Position == [n \in {RowName[fam] : fam \in Families} |->
                CHOOSE p \in 1..4 : RowName[summaryKeys[p]] = n]

\* C5: a family has a row in the summary exactly when its total tokens over the
\* displayed periods are more than zero, it has one row at most, and the rows
\* come in the order opus, sonnet, haiku, other.
C5_RowsShown ==
    variant = "weekly" =>
        LET ms == ModelsOf(days)
            rows == modelSummary(days)
        IN /\ \A fam \in Families :
                  Cardinality({i \in 1..Len(rows) : rows[i].name = RowName[fam]})
                      = IF SumOf(InFamily(ms, fam), "totalTokens") > 0 THEN 1 ELSE 0
           /\ \A i \in 1..Len(rows) : rows[i].name \in {RowName[fam] : fam \in Families}
           /\ \A i \in 1..(Len(rows) - 1) : Position[rows[i].name] < Position[rows[i + 1].name]

\* a family with a cost and no tokens has no row, while another family has one
C5_Witness ==
    /\ variant = "weekly"
    /\ \E fam \in Families :
          /\ SumOf(InFamily(ModelsOf(days), fam), "cost") > 0
          /\ SumOf(InFamily(ModelsOf(days), fam), "totalTokens") = 0
          /\ \A i \in 1..Len(modelSummary(days)) : modelSummary(days)[i].name # RowName[fam]
    /\ Len(modelSummary(days)) = 1


\* the window the claims give: 12 weeks back, or 6 days back
ClaimedCutoff(now) ==
    IF variant = "weekly" THEN now - 12 * 7 * TicksPerDay ELSE now - 6 * TicksPerDay

\* the shape in which an upstream record is displayed
Shape(d) == IF variant = "weekly" THEN day(d) ELSE dayDaily(d)

\* the positions of the records of the report that are on or after the cutoff
Kept(g) ==
    {i \in 1..Len(ItemsOf(g)) :
        LET p == periodOf(ItemsOf(g)[i]) IN
        p.form # "text" /\ p.day * TicksPerDay + p.tick >= ClaimedCutoff(g.now)}

Least(a, b) == IF a < b THEN a ELSE b

\* C8: after a successful refresh the displayed periods are the records of the
\* report on or after the cutoff and no others, newest first; the daily version
\* shows the 7 most recent of them.
C8_WindowAndOrder ==
    lastOk # None =>
        LET items == ItemsOf(lastOk)
            kept == Kept(lastOk)
            time(j) == Timestamp(days[j].date).v
            inDays(v) == Cardinality({j \in 1..Len(days) : days[j] = v})
            inKept(v) == Cardinality({i \in kept : Shape(items[i]) = v})
        IN /\ \A j \in 1..(Len(days) - 1) : time(j) >= time(j + 1)
           /\ \A j \in 1..Len(days) : inDays(days[j]) <= inKept(days[j])
           /\ variant = "weekly" =>
                  \A i \in kept : inDays(Shape(items[i])) = inKept(Shape(items[i]))
           /\ variant = "daily" =>
                  /\ Len(days) = Least(Cardinality(kept), 7)
                  /\ \A i \in kept :
                        inDays(Shape(items[i])) < inKept(Shape(items[i])) =>
                            \A j \in 1..Len(days) :
                                time(j) >= Timestamp(Shape(items[i]).date).v

\* a weekly report listed oldest first, with a week on the cutoff that is shown,
\* weeks before it that are not, and the weeks shown newest first
C8_Witness ==
    /\ variant = "weekly"
    /\ lastOk # None
    /\ Cardinality(Kept(lastOk)) < Len(ItemsOf(lastOk))
    /\ Len(days) >= 3
    /\ Timestamp(days[Len(days)].date).v = ClaimedCutoff(lastOk.now)
    /\ days[1].date = ItemsOf(lastOk)[Len(ItemsOf(lastOk))].week

\* C3: with one record for each of the 10 days that end today, the daily
\* version shows the 7 most recent days, newest first, at any time of day.
C3_SevenOfTenDays ==
    (/\ variant = "daily"
     /\ lastOk # None
     /\ ItemsOf(lastOk) = Run("daily", 10, lastOk.now \div TicksPerDay))
    => [j \in 1..Len(days) |-> days[j].date]
           = [j \in 1..7 |-> DateOnly((lastOk.now \div TicksPerDay) - (j - 1))]

\* C7: after a successful refresh every numeric field of every displayed period
\* and of every model in it holds a number, and so does the stored total.
C7_NoUndefinedStored ==
    lastOk # None =>
        /\ totalCost.t = "num"
        /\ \A j \in 1..Len(days) :
              /\ days[j].totalCost.t = "num"
              /\ variant = "weekly" =>
                    /\ days[j].inputTokens.t = "num"
                    /\ days[j].outputTokens.t = "num"
                    /\ days[j].totalTokens.t = "num"
              /\ \A n \in 1..Len(days[j].models) :
                    /\ days[j].models[n].cost.t = "num"
                    /\ variant = "weekly" =>
                          /\ days[j].models[n].inputTokens.t = "num"
                          /\ days[j].models[n].outputTokens.t = "num"
                          /\ days[j].models[n].totalTokens.t = "num"

====
